---------------------------- MODULE Spec2Model ----------------------------
(***************************************************************************)
(* Reactive permission and presence values of data/data_peer_values.cpp.   *)
(*                                                                         *)
(* Bit masks (peer flags, admin rights, restrictions) are sets of bit      *)
(* names: a & b is a \cap b, a | b is a \cup b, a & ~b is a \ b and a     *)
(* mask converts to true exactly when the set is not empty.                *)
(*                                                                         *)
(* A producer built with rpl::combine re-runs its lambda on the latest     *)
(* value of every input whenever one of them changes, so every action      *)
(* that changes the peer's data ends by storing what the subscribed        *)
(* producers emit.                                                         *)
(***************************************************************************)
EXTENDS Integers, FiniteSets, Sequences

VARIABLES
    kind,                \* PeerData subtype: "user", "chat" or "channel"
    flags,               \* UserDataFlags / ChatDataFlags / ChannelDataFlags
    adminRights,         \* ChatAdminRights of the caller
    restrictions,        \* ChatRestrictions applied to the caller (channels)
    defaultRestrictions, \* ChatRestrictions applied to every member
    repliesChat,         \* user->isRepliesChat()
    topic,               \* the forum topic of the thread (channels)
    sendValue,           \* latest CanSendAnyOfValue(peer, rights, forbid)
    threadValue,         \* latest CanSendAnyOfValue(thread, rights, forbid)
    creatorAtStart,      \* amCreator() read when the producers were made
    pinValue,            \* latest CanPinMessagesValue(peer)
    callValue,           \* latest CanManageGroupCallValue(peer)
    online,              \* UserData::onlineTill
    now,                 \* the unixtime the caller passes
    utcOffset,           \* seconds the local time zone is ahead of UTC
    seconds,             \* OnlinePhraseChangeInSeconds(online, now)
    timeout,             \* OnlineChangeTimeout(online, now)
    active,              \* OnlineTextActive(online, now)
    assertOk,            \* Assert(result >= 0) of OnlineChangeTimeout held
    text,                \* OnlineText(online, now)
    phase,               \* PeerUserpicImageValue: "idle", "subscribed", "destroyed"
    photoListener,       \* the peerFlagsValue(Photo) subscription is alive
    listeners,           \* downloaderTaskFinished() subscriptions alive
    stKey,               \* state->key
    stEmpty,             \* state->empty
    seenKey,             \* the key the latest push read
    seenLoading,         \* the loading the latest push read
    emitted,             \* keys of the images put to the consumer
    pushes,              \* runs of state->push so far
    late                 \* notifications since the lifetime was destroyed

permVars == <<kind, flags, adminRights, restrictions, defaultRestrictions,
              repliesChat, topic>>
sendVars == <<sendValue, threadValue>>
pinVars == <<creatorAtStart, pinValue, callValue>>
onlineVars == <<online, now, utcOffset, seconds, timeout, active, assertOk,
                text>>
userpicVars == <<phase, photoListener, listeners, stKey, stEmpty, seenKey,
                 seenLoading, emitted, pushes, late>>
vars == <<permVars, sendVars, pinVars, onlineVars, userpicVars>>

---------------------------------------------------------------------------
(* The bits the permission rules read.                                     *)

\* ChatRestriction bits a query may ask about.
SendRights == {"SendOther", "SendVoiceMessages", "SendVideoMessages"}

\* The ChatRestriction bits the modelled groups and channels restrict; a
\* query may also ask about a bit no mask of the peer restricts.
GroupRestrictions == {"SendOther", "SendVoiceMessages"}

\* The flags each CanSendAnyOfValue branch puts in its mask.
UserSendFlags == {"Deleted", "VoiceMessagesForbidden"}
ChatSendFlags == {"Deactivated", "Forbidden", "Left", "Creator"}
ChannelSendFlags == {"Left", "Forum", "JoinToWrite", "HasLink", "Forbidden",
                     "Creator", "Broadcast"}
TopicSendFlags == {"Left", "JoinToWrite", "HasLink", "Forbidden", "Creator"}

\* The admin rights CanSendAnyOfValue listens to.
SendAdminRights == {"PostMessages", "ManageTopics"}

\* A subscription is made with (rights, forbidInForums); a caller asks
\* about at least one right.
RightsMasks == (SUBSET SendRights) \ {{}}
Queries == RightsMasks \X BOOLEAN

NoTopic == [closed |-> FALSE, my |-> FALSE]

\* ForumTopic::canToggleClosed(): the caller made the topic or can manage
\* the channel's topics.
canToggleClosed(t, f, admin) ==
    t.my \/ "Creator" \in f \/ "ManageTopics" \in admin

---------------------------------------------------------------------------
(* CanSendAnyOfValue(not_null<PeerData*>, rights, forbidInForums)          *)

\* CanSendUser with the voice restriction applied to every query.
CanSendUserVoiceAlways(replies, f, rights) ==
    IF replies
    THEN FALSE
    ELSE (f \cap {"Deleted", "VoiceMessagesForbidden"}) = {}

CanSendUser(replies, f, rights) ==
    IF replies
    THEN FALSE
    ELSE LET other == rights \ {"SendVoiceMessages", "SendVideoMessages"}
         IN  IF other # {}
             THEN ~("Deleted" \in f)
             ELSE (f \cap {"Deleted", "VoiceMessagesForbidden"}) = {}

\* CanSendChat without the creator's override.
CanSendChatNoCreator(f, admin, defaults, rights) ==
    /\ (f \cap {"Deactivated", "Forbidden", "Left"}) = {}
    /\ \/ admin # {}
       \/ (rights \ (defaults \cap rights)) # {}

CanSendChat(f, admin, defaults, rights) ==
    LET mask == {"Deactivated", "Forbidden", "Left", "Creator"}
        masked == f \cap mask
        defaultSendRestrictions == defaults \cap rights
        amOutFlags == {"Deactivated", "Forbidden", "Left"}
    IN  /\ (masked \cap amOutFlags) = {}
        /\ \/ "Creator" \in masked
           \/ admin # {}
           \/ (rights \ defaultSendRestrictions) # {}

\* CanSendChannel without the Broadcast test.
CanSendChannelNoBroadcast(f, admin, restr, defaults, rights, forbidInForums) ==
    /\ \/ (f \cap {"Left", "Forbidden"}) = {}
       \/ ("HasLink" \in f /\ ~("JoinToWrite" \in f))
    /\ ~(forbidInForums /\ "Forum" \in f)
    /\ \/ "PostMessages" \in admin
       \/ "Creator" \in f
       \/ (rights \ ((restr \cup defaults) \cap rights)) # {}

\* CanSendChannel with the creator passing the membership test.
CanSendChannelCreatorFirst(f, admin, restr, defaults, rights, forbidInForums) ==
    \/ "Creator" \in f
    \/ /\ \/ (f \cap {"Left", "Forbidden"}) = {}
          \/ ("HasLink" \in f /\ ~("JoinToWrite" \in f))
       /\ ~(forbidInForums /\ "Forum" \in f)
       /\ \/ "PostMessages" \in admin
          \/ (~("Broadcast" \in f)
                /\ (rights \ ((restr \cup defaults) \cap rights)) # {})

CanSendChannel(f, admin, restr, defaults, rights, forbidInForums) ==
    LET postMessagesRight == "PostMessages" \in admin
        sendRestriction == restr \cap rights
        defaultSendRestriction == defaults \cap rights
        notAmInFlags == {"Left", "Forbidden"}
        forumRestriction == forbidInForums /\ "Forum" \in f
        allowed == \/ (f \cap notAmInFlags) = {}
                   \/ ("HasLink" \in f /\ ~("JoinToWrite" \in f))
        restricted == sendRestriction \cup defaultSendRestriction
    IN  /\ allowed
        /\ ~forumRestriction
        /\ \/ postMessagesRight
           \/ "Creator" \in f
           \/ (~("Broadcast" \in f) /\ (rights \ restricted) # {})

CanSendAnyOfValue(k, replies, f, admin, restr, defaults, rights, forbidInForums) ==
    CASE k = "user" -> CanSendUser(replies, f, rights)
      [] k = "chat" -> CanSendChat(f, admin, defaults, rights)
      [] k = "channel" ->
            CanSendChannel(f, admin, restr, defaults, rights, forbidInForums)
      [] OTHER -> "Unexpected"

(* CanSendAnyOfValue(not_null<Thread*>, rights, forbidInForums)            *)

CanSendTopic(t, f, admin, restr, defaults, rights) ==
    LET masked == f \cap TopicSendFlags
        sendRestriction == restr \cap rights
        defaultSendRestriction == defaults \cap rights
        notAmInFlags == {"Left", "Forbidden"}
        allowed == \/ (masked \cap notAmInFlags) = {}
                   \/ ("HasLink" \in masked /\ ~("JoinToWrite" \in masked))
    IN  /\ allowed
        /\ \/ "Creator" \in masked
           \/ (sendRestriction = {} /\ defaultSendRestriction = {})
        /\ (~t.closed \/ canToggleClosed(t, f, admin))

\* thread->asTopic() is non-null exactly for the threads of a forum; any
\* other thread is the history of its peer.
CanSendAnyOfValueThread(k, replies, t, f, admin, restr, defaults, rights, forbidInForums) ==
    IF k = "channel" /\ "Forum" \in f
    THEN CanSendTopic(t, f, admin, restr, defaults, rights)
    ELSE CanSendAnyOfValue(k, replies, f, admin, restr, defaults, rights,
                           forbidInForums)

\* What every subscription holds once the peer's data is (k, ..., defaults).
SendValues(k, replies, f, admin, restr, defaults) ==
    [q \in Queries |->
        CanSendAnyOfValue(k, replies, f, admin, restr, defaults, q[1], q[2])]

ThreadValues(k, replies, t, f, admin, restr, defaults) ==
    [q \in Queries |->
        CanSendAnyOfValueThread(k, replies, t, f, admin, restr, defaults,
                                q[1], q[2])]

---------------------------------------------------------------------------
(* The data layer changing the peer under the CanSendAnyOfValue streams.   *)

Toggle(s, b) == IF b \in s THEN s \ {b} ELSE s \cup {b}

SendFlagsOf(k) ==
    CASE k = "user" -> UserSendFlags
      [] k = "chat" -> ChatSendFlags
      [] k = "channel" -> ChannelSendFlags

IdleOnline ==
    /\ online = 0 /\ now = 0 /\ utcOffset = 0
    /\ seconds = 0 /\ timeout = 0 /\ active = FALSE /\ assertOk = TRUE
    /\ text = <<"lng_status_offline">>

IdleUserpic ==
    /\ phase = "idle" /\ photoListener = FALSE /\ listeners = 0
    /\ stKey = "none" /\ stEmpty = TRUE /\ seenKey = "none"
    /\ seenLoading = FALSE /\ emitted = <<>> /\ pushes = 0 /\ late = 0

IdlePin == creatorAtStart = FALSE /\ pinValue = FALSE /\ callValue = FALSE

\* A peer as the data layer makes it, before any update has filled it in,
\* with every query subscribed to.
InitSend ==
    /\ kind \in {"user", "chat", "channel"}
    /\ flags = {}
    /\ repliesChat \in (IF kind = "user" THEN BOOLEAN ELSE {FALSE})
    /\ adminRights = {}
    /\ restrictions = {}
    /\ defaultRestrictions = {}
    /\ topic \in (IF kind = "channel"
                  THEN [closed : {FALSE}, my : BOOLEAN]
                  ELSE {NoTopic})
    /\ sendValue = SendValues(kind, repliesChat, flags, adminRights,
                              restrictions, defaultRestrictions)
    /\ threadValue = ThreadValues(kind, repliesChat, topic, flags,
                                  adminRights, restrictions,
                                  defaultRestrictions)
    /\ IdlePin
    /\ IdleOnline
    /\ IdleUserpic

\* The streams re-run their lambdas on the changed data.
EmitSend ==
    /\ sendValue' = SendValues(kind', repliesChat', flags', adminRights',
                               restrictions', defaultRestrictions')
    /\ threadValue' = ThreadValues(kind', repliesChat', topic', flags',
                                   adminRights', restrictions',
                                   defaultRestrictions')

SetSendFlag ==
    /\ \E b \in SendFlagsOf(kind) : flags' = Toggle(flags, b)
    /\ UNCHANGED <<kind, adminRights, restrictions, defaultRestrictions,
                   repliesChat, topic>>
    /\ EmitSend
    /\ UNCHANGED <<pinVars, onlineVars, userpicVars>>

SetSendAdminRight ==
    /\ kind \in {"chat", "channel"}
    /\ \E b \in SendAdminRights : adminRights' = Toggle(adminRights, b)
    /\ UNCHANGED <<kind, flags, restrictions, defaultRestrictions,
                   repliesChat, topic>>
    /\ EmitSend
    /\ UNCHANGED <<pinVars, onlineVars, userpicVars>>

SetSendRestriction ==
    /\ kind = "channel"
    /\ \E b \in GroupRestrictions : restrictions' = Toggle(restrictions, b)
    /\ UNCHANGED <<kind, flags, adminRights, defaultRestrictions,
                   repliesChat, topic>>
    /\ EmitSend
    /\ UNCHANGED <<pinVars, onlineVars, userpicVars>>

SetSendDefaultRestriction ==
    /\ kind \in {"chat", "channel"}
    /\ \E b \in GroupRestrictions :
            defaultRestrictions' = Toggle(defaultRestrictions, b)
    /\ UNCHANGED <<kind, flags, adminRights, restrictions, repliesChat,
                   topic>>
    /\ EmitSend
    /\ UNCHANGED <<pinVars, onlineVars, userpicVars>>

SetTopicClosed ==
    /\ kind = "channel"
    /\ topic' = [topic EXCEPT !.closed = ~topic.closed]
    /\ UNCHANGED <<kind, flags, adminRights, restrictions,
                   defaultRestrictions, repliesChat>>
    /\ EmitSend
    /\ UNCHANGED <<pinVars, onlineVars, userpicVars>>

NextSend ==
    \/ SetSendFlag
    \/ SetSendAdminRight
    \/ SetSendRestriction
    \/ SetSendDefaultRestriction
    \/ SetTopicClosed

SpecSend == InitSend /\ [][NextSend]_vars

---------------------------------------------------------------------------
(* CanPinMessagesValue(peer) and CanManageGroupCallValue(peer)             *)

UserPinFlags == {"CanPinMessages"}
ChatPinFlags == {"Deactivated", "Forbidden", "Left", "Creator"}
\* Megagroup tells asMegagroup() from asChannel(); the type of a channel is
\* set when it is created and no update changes it.
ChannelPinFlags == {"Megagroup", "Creator", "Username", "Location"}
PinAdminRights == {"PinMessages", "EditMessages", "ManageCall"}
PinRestrictions == {"PinMessages"}

CanPinUser(f) == (f \cap {"CanPinMessages"}) # {}

CanPinChat(f, admin, defaults) ==
    LET mask == {"Deactivated", "Forbidden", "Left", "Creator"}
        masked == f \cap mask
        adminRightAllows == "PinMessages" \in admin
        defaultRestriction == "PinMessages" \in defaults
        amOutFlags == {"Deactivated", "Forbidden", "Left"}
    IN  /\ (masked \cap amOutFlags) = {}
        /\ \/ "Creator" \in masked
           \/ adminRightAllows
           \/ ~defaultRestriction

\* CanPinMegagroup without the username and location test.
CanPinMegagroupAnyGroup(amCreator, f, admin, restr, defaults) ==
    IF amCreator
    THEN TRUE
    ELSE \/ "PinMessages" \in admin
         \/ (~("PinMessages" \in defaults) /\ ~("PinMessages" \in restr))

\* amCreator is megagroup->amCreator() as read when the producer was made.
CanPinMegagroup(amCreator, f, admin, restr, defaults) ==
    IF amCreator
    THEN TRUE
    ELSE LET adminRightAllows == "PinMessages" \in admin
             defaultRestriction == "PinMessages" \in defaults
             usernameOrLocation == f \cap {"Username", "Location"}
         IN  \/ adminRightAllows
             \/ /\ usernameOrLocation = {}
                /\ ~defaultRestriction
                /\ ~("PinMessages" \in restr)

CanPinBroadcast(amCreator, admin) ==
    IF amCreator THEN TRUE ELSE "EditMessages" \in admin

CanPinMessagesValue(k, amCreator, f, admin, restr, defaults) ==
    CASE k = "user" -> CanPinUser(f)
      [] k = "chat" -> CanPinChat(f, admin, defaults)
      [] k = "channel" /\ "Megagroup" \in f ->
            CanPinMegagroup(amCreator, f, admin, restr, defaults)
      [] k = "channel" /\ ~("Megagroup" \in f) ->
            CanPinBroadcast(amCreator, admin)
      [] OTHER -> "Unexpected"

\* CanManageGroupCallValue asking the creator of a basic group for the
\* admin right as well.
CanManageGroupCallValueChatRight(k, amCreator, admin) ==
    IF k = "chat"
    THEN "ManageCall" \in admin
    ELSE IF k = "channel"
    THEN (IF amCreator THEN TRUE ELSE "ManageCall" \in admin)
    ELSE FALSE

CanManageGroupCallValue(k, amCreator, admin) ==
    LET flag == "ManageCall"
    IN  IF k = "chat"
        THEN (IF amCreator THEN TRUE ELSE flag \in admin)
        ELSE IF k = "channel"
        THEN (IF amCreator THEN TRUE ELSE flag \in admin)
        ELSE FALSE

PinFlagsOf(k) ==
    CASE k = "user" -> UserPinFlags
      [] k = "chat" -> ChatPinFlags
      [] k = "channel" -> ChannelPinFlags

IdleSend ==
    /\ sendValue = [q \in Queries |-> FALSE]
    /\ threadValue = [q \in Queries |-> FALSE]

\* The state right after both producers were made and subscribed to.
InitPin ==
    /\ kind \in {"user", "chat", "channel"}
    /\ flags \in SUBSET (PinFlagsOf(kind) \cap {"Megagroup", "Creator"})
    /\ repliesChat = FALSE
    /\ adminRights = {}
    /\ restrictions = {}
    /\ defaultRestrictions = {}
    /\ topic = NoTopic
    /\ creatorAtStart = ("Creator" \in flags)
    /\ pinValue = CanPinMessagesValue(kind, creatorAtStart, flags,
                                      adminRights, restrictions,
                                      defaultRestrictions)
    /\ callValue = CanManageGroupCallValue(kind, creatorAtStart, adminRights)
    /\ IdleSend
    /\ IdleOnline
    /\ IdleUserpic

\* The producers keep what they read when they were made and re-run their
\* lambdas on the changed data.
EmitPin ==
    /\ creatorAtStart' = creatorAtStart
    /\ pinValue' = CanPinMessagesValue(kind', creatorAtStart, flags',
                                       adminRights', restrictions',
                                       defaultRestrictions')
    /\ callValue' = CanManageGroupCallValue(kind', creatorAtStart,
                                            adminRights')

SetPinFlag ==
    /\ \E b \in PinFlagsOf(kind) \ {"Megagroup"} : flags' = Toggle(flags, b)
    /\ UNCHANGED <<kind, adminRights, restrictions, defaultRestrictions,
                   repliesChat, topic>>
    /\ EmitPin
    /\ UNCHANGED <<sendVars, onlineVars, userpicVars>>

SetPinAdminRight ==
    /\ kind \in {"chat", "channel"}
    /\ \E b \in PinAdminRights : adminRights' = Toggle(adminRights, b)
    /\ UNCHANGED <<kind, flags, restrictions, defaultRestrictions,
                   repliesChat, topic>>
    /\ EmitPin
    /\ UNCHANGED <<sendVars, onlineVars, userpicVars>>

SetPinRestriction ==
    /\ kind = "channel"
    /\ \E b \in PinRestrictions : restrictions' = Toggle(restrictions, b)
    /\ UNCHANGED <<kind, flags, adminRights, defaultRestrictions,
                   repliesChat, topic>>
    /\ EmitPin
    /\ UNCHANGED <<sendVars, onlineVars, userpicVars>>

SetPinDefaultRestriction ==
    /\ kind \in {"chat", "channel"}
    /\ \E b \in PinRestrictions :
            defaultRestrictions' = Toggle(defaultRestrictions, b)
    /\ UNCHANGED <<kind, flags, adminRights, restrictions, repliesChat,
                   topic>>
    /\ EmitPin
    /\ UNCHANGED <<sendVars, onlineVars, userpicVars>>

NextPin ==
    \/ SetPinFlag
    \/ SetPinAdminRight
    \/ SetPinRestriction
    \/ SetPinDefaultRestriction

SpecPin == InitPin /\ [][NextPin]_vars

---------------------------------------------------------------------------
(* Presence: OnlinePhraseChangeInSeconds, OnlineChangeTimeout and          *)
(* OnlineTextActive on (online, now).                                      *)
(*                                                                         *)
(* TimeId is a 32 bit signed integer.  The data layer stores in onlineTill *)
(* a date, one of the buckets 0..-4, or the negation of a date, and passes *)
(* a unixtime as now, so online ranges over -kTimeIdMax..kTimeIdMax and    *)
(* now over 0..kTimeIdMax and no subtraction below leaves the 32 bits.     *)

kTimeIdMax == 2147483647
kMinOnlineChangeTimeout == 1000
kMaxOnlineChangeTimeout == 86400000
kSecondsInDay == 86400
kMsInSecond == 1000
kSecondsInMinute == 60
kSecondsInHour == 3600
kMinutesShown == 60
kHoursShown == 12

Max(a, b) == IF a >= b THEN a ELSE b
Min(a, b) == IF a <= b THEN a ELSE b
Clamp(v, lo, hi) == Max(lo, Min(v, hi))

\* nowFull.secsTo(nowFull.date().addDays(1).startOfDay()) in a time zone
\* off seconds ahead of UTC with days of kSecondsInDay seconds.
SecsToTomorrow(n, off) ==
    kSecondsInDay - (((n % kSecondsInDay) + off) % kSecondsInDay)

OnlinePhrasePast(o, n, off) ==
    LET minutes == (n - o) \div kSecondsInMinute
        hours == (n - o) \div kSecondsInHour
    IN  IF minutes < kMinutesShown
        THEN (minutes + 1) * kSecondsInMinute - (n - o)
        ELSE IF hours < kHoursShown
        THEN (hours + 1) * kSecondsInHour - (n - o)
        ELSE Max(SecsToTomorrow(n, off), 0)

\* OnlinePhraseChangeInSeconds without the branch of a future timestamp.
OnlinePhraseChangeNoFuture(o, n, off) ==
    IF o <= 0
    THEN IF -o > n THEN (-o - n) ELSE kTimeIdMax
    ELSE OnlinePhrasePast(o, n, off)

\* OnlinePhraseChangeInSeconds counting to the start of the current minute.
OnlinePhraseChangeThisMinute(o, n, off) ==
    IF o <= 0
    THEN IF -o > n THEN (-o - n) ELSE kTimeIdMax
    ELSE IF o > n
    THEN o - n
    ELSE LET minutes == (n - o) \div kSecondsInMinute
         IN  IF minutes < kMinutesShown
             THEN minutes * kSecondsInMinute - (n - o)
             ELSE OnlinePhrasePast(o, n, off)

\* OnlinePhraseChangeInSeconds with -online >= now for -online > now.
OnlinePhraseChangeInclusive(o, n, off) ==
    IF o <= 0
    THEN IF -o >= n THEN (-o - n) ELSE kTimeIdMax
    ELSE IF o > n
    THEN o - n
    ELSE OnlinePhrasePast(o, n, off)

OnlinePhraseChangeInSeconds(o, n, off) ==
    IF o <= 0
    THEN IF -o > n THEN (-o - n) ELSE kTimeIdMax
    ELSE IF o > n
    THEN o - n
    ELSE LET minutes == (n - o) \div kSecondsInMinute
             hours == (n - o) \div kSecondsInHour
         IN  IF minutes < kMinutesShown
             THEN (minutes + 1) * kSecondsInMinute - (n - o)
             ELSE IF hours < kHoursShown
             THEN (hours + 1) * kSecondsInHour - (n - o)
             ELSE Max(SecsToTomorrow(n, off), 0)

\* result * crl::time(1000) is a 64 bit product.  TLC's integers
\* have 32 bits, so a product beyond them is kept as kTimeIdMax, which is
\* above kMaxOnlineChangeTimeout like the product itself.
ToMilliseconds(result) ==
    IF result > kTimeIdMax \div kMsInSecond
    THEN kTimeIdMax
    ELSE result * kMsInSecond

OnlineChangeTimeout(o, n, off) ==
    LET result == OnlinePhraseChangeInSeconds(o, n, off)
    IN  Clamp(ToMilliseconds(result), kMinOnlineChangeTimeout,
              kMaxOnlineChangeTimeout)

\* Assert(result >= 0) in OnlineChangeTimeout.
OnlineChangeAssert(o, n, off) == OnlinePhraseChangeInSeconds(o, n, off) >= 0

OnlineTextActive(o, n) ==
    IF o <= 0
    THEN IF o \in {0, -1, -2, -3, -4} THEN FALSE ELSE (-o > n)
    ELSE (o > n)

(* OnlineText(online, now).  A phrase is the name of its lang key followed *)
(* by the values put into it.                                              *)

NullOpt == <<>>

\* OnlineTextCommon comparing -online with now before looking at the
\* buckets.
OnlineTextCommonNowFirst(o, n) ==
    IF o <= 0
    THEN IF -o > n
         THEN <<"lng_status_online">>
         ELSE CASE o \in {0, -1} -> <<"lng_status_offline">>
                [] o = -2 -> <<"lng_status_recently">>
                [] o = -3 -> <<"lng_status_last_week">>
                [] o = -4 -> <<"lng_status_last_month">>
                [] OTHER -> <<"lng_status_recently">>
    ELSE IF o > n
    THEN <<"lng_status_online">>
    ELSE <<>>

OnlineTextCommon(o, n) ==
    IF o <= 0
    THEN CASE o \in {0, -1} -> <<"lng_status_offline">>
           [] o = -2 -> <<"lng_status_recently">>
           [] o = -3 -> <<"lng_status_last_week">>
           [] o = -4 -> <<"lng_status_last_month">>
           [] OTHER -> IF -o > n
                       THEN <<"lng_status_online">>
                       ELSE <<"lng_status_recently">>
    ELSE IF o > n
    THEN <<"lng_status_online">>
    ELSE NullOpt

\* base::unixtime::parse(t).date() as a day number and .time() in the short
\* format (hours and minutes) as a minute of the day, in a time zone off
\* seconds ahead of UTC.
LocalDate(t, off) ==
    (t \div kSecondsInDay) + (((t % kSecondsInDay) + off) \div kSecondsInDay)
LocalTime(t, off) ==
    (((t % kSecondsInDay) + off) % kSecondsInDay) \div kSecondsInMinute

\* OnlineText rounding the minutes to the nearest one.
OnlineTextRounded(o, n, off) ==
    LET minutes == (n - o + 30) \div kSecondsInMinute
        hours == (n - o) \div kSecondsInHour
    IN  IF o <= 0 \/ o > n
        THEN <<"lng_status_online">>
        ELSE IF minutes = 0
        THEN <<"lng_status_lastseen_now">>
        ELSE IF minutes < kMinutesShown
        THEN <<"lng_status_lastseen_minutes", minutes>>
        ELSE IF hours < kHoursShown
        THEN <<"lng_status_lastseen_hours", hours>>
        ELSE <<"lng_status_lastseen_date", LocalDate(o, off)>>

OnlineText(o, n, off) ==
    LET common == OnlineTextCommon(o, n)
        minutes == (n - o) \div kSecondsInMinute
        hours == (n - o) \div kSecondsInHour
    IN  IF common # NullOpt
        THEN common
        ELSE IF minutes = 0
        THEN <<"lng_status_lastseen_now">>
        ELSE IF minutes < kMinutesShown
        THEN <<"lng_status_lastseen_minutes", minutes>>
        ELSE IF hours < kHoursShown
        THEN <<"lng_status_lastseen_hours", hours>>
        ELSE IF LocalDate(o, off) = LocalDate(n, off)
        THEN <<"lng_status_lastseen_today", LocalTime(o, off)>>
        ELSE IF LocalDate(o, off) + 1 = LocalDate(n, off)
        THEN <<"lng_status_lastseen_yesterday", LocalTime(o, off)>>
        ELSE <<"lng_status_lastseen_date", LocalDate(o, off)>>

\* The times the model tries: within MaxOffset seconds of each anchor.
MaxOffset == 2
TimeAnchors == {0, 60, 500, 1000, 3600, 43200, 86400, kTimeIdMax}
NowSamples ==
    {t \in UNION {{a - k} \cup (IF a <= kTimeIdMax - k THEN {a + k} ELSE {}) :
                    a \in TimeAnchors, k \in 0..MaxOffset} : t >= 0}
\* with every bucket and the first negative value that is none.
OnlineSamples ==
    NowSamples \cup {-t : t \in NowSamples} \cup {0, -1, -2, -3, -4, -5}
UtcOffsets == {-18000, 0, 12600}

IdlePerm ==
    /\ kind = "user" /\ flags = {} /\ adminRights = {} /\ restrictions = {}
    /\ defaultRestrictions = {} /\ repliesChat = FALSE /\ topic = NoTopic

Compute ==
    /\ seconds' = OnlinePhraseChangeInSeconds(online', now', utcOffset')
    /\ assertOk' = OnlineChangeAssert(online', now', utcOffset')
    /\ timeout' = OnlineChangeTimeout(online', now', utcOffset')
    /\ active' = OnlineTextActive(online', now')
    /\ text' = OnlineText(online', now', utcOffset')

InitOnline ==
    /\ online = 0
    /\ now \in NowSamples
    /\ utcOffset \in UtcOffsets
    /\ seconds = OnlinePhraseChangeInSeconds(online, now, utcOffset)
    /\ assertOk = OnlineChangeAssert(online, now, utcOffset)
    /\ timeout = OnlineChangeTimeout(online, now, utcOffset)
    /\ active = OnlineTextActive(online, now)
    /\ text = OnlineText(online, now, utcOffset)
    /\ IdlePerm /\ IdleSend /\ IdlePin /\ IdleUserpic

\* The server pushes a new status of the user.
UpdateOnline ==
    /\ \E o \in OnlineSamples : online' = o
    /\ UNCHANGED <<now, utcOffset>>
    /\ Compute
    /\ UNCHANGED <<permVars, sendVars, pinVars, userpicVars>>

\* The clock moves on and the caller asks again.
AdvanceTime ==
    /\ \E n \in NowSamples : n > now /\ now' = n
    /\ UNCHANGED <<online, utcOffset>>
    /\ Compute
    /\ UNCHANGED <<permVars, sendVars, pinVars, userpicVars>>

NextOnline ==
    \/ UpdateOnline
    \/ AdvanceTime

SpecOnline == InitOnline /\ [][NextOnline]_vars

---------------------------------------------------------------------------
(* PeerUserpicImageValue(peer, size, radius): one subscription.            *)
(*                                                                         *)
(* state->push reads the key and the loading of state->view when it runs,  *)
(* so both are inputs of every run.  The lifetime `result` owns the state  *)
(* (with state->waiting) and the subscription to the Photo flag.           *)

\* InMemoryKey values; "none" is the value-initialized key state->key
\* starts with.
Keys == {"none", "a", "b"}

MaxPushes == 4
MaxLate == 2

\* The if / else if on loading and state->waiting: the number of
\* downloaderTaskFinished() subscriptions in state->waiting after it.
WaitingAfterAlways(loading, waiting) ==
    IF loading THEN waiting + 1 ELSE 0

WaitingAfter(loading, waiting) ==
    IF loading /\ waiting = 0
    THEN waiting + 1
    ELSE IF ~loading /\ waiting # 0
    THEN 0
    ELSE waiting

\* if (!state->empty && (loading || key == state->key)) return;
PushReturnsNoEmpty(empty, loading, key, stateKey) ==
    loading \/ key = stateKey

PushReturns(empty, loading, key, stateKey) ==
    ~empty /\ (loading \/ key = stateKey)

\* One run of state->push reading (key, loading).
Push(key, loading) ==
    /\ pushes < MaxPushes
    /\ pushes' = pushes + 1
    /\ seenKey' = key
    /\ seenLoading' = loading
    /\ listeners' = WaitingAfter(loading, listeners)
    /\ IF PushReturns(stEmpty, loading, key, stKey)
       THEN UNCHANGED <<stKey, stEmpty, emitted>>
       ELSE /\ stKey' = key
            /\ stEmpty' = FALSE
            /\ emitted' = Append(emitted, key)

InitUserpic ==
    /\ IdleUserpic
    /\ IdlePerm /\ IdleSend /\ IdlePin /\ IdleOnline

\* The consumer subscribes: the state is made and peerFlagsValue(Photo)
\* fires at once.
Subscribe ==
    /\ phase = "idle"
    /\ phase' = "subscribed"
    /\ photoListener' = TRUE
    /\ \E k \in Keys, l \in BOOLEAN : Push(k, l)
    /\ UNCHANGED late
    /\ UNCHANGED <<permVars, sendVars, pinVars, onlineVars>>

\* The peer's photo changes.
PhotoChanged ==
    /\ photoListener
    /\ \E k \in Keys, l \in BOOLEAN : Push(k, l)
    /\ UNCHANGED <<phase, photoListener, late>>
    /\ UNCHANGED <<permVars, sendVars, pinVars, onlineVars>>

\* A download of the session ends.
TaskFinished ==
    /\ listeners > 0
    /\ \E k \in Keys, l \in BOOLEAN : Push(k, l)
    /\ UNCHANGED <<phase, photoListener, late>>
    /\ UNCHANGED <<permVars, sendVars, pinVars, onlineVars>>

\* The consumer destroys the lifetime: the Photo subscription and the
\* state, with state->waiting, go.
Destroy ==
    /\ phase = "subscribed"
    /\ phase' = "destroyed"
    /\ photoListener' = FALSE
    /\ listeners' = 0
    /\ UNCHANGED <<stKey, stEmpty, seenKey, seenLoading, emitted, pushes,
                   late>>
    /\ UNCHANGED <<permVars, sendVars, pinVars, onlineVars>>

\* A photo change or the end of a download that nothing listens to any
\* more.
PhotoChangedUnheard ==
    /\ phase = "destroyed" /\ ~photoListener
    /\ late < MaxLate
    /\ late' = late + 1
    /\ UNCHANGED <<phase, photoListener, listeners, stKey, stEmpty, seenKey,
                   seenLoading, emitted, pushes>>
    /\ UNCHANGED <<permVars, sendVars, pinVars, onlineVars>>

TaskFinishedUnheard ==
    /\ phase = "destroyed" /\ listeners = 0
    /\ late < MaxLate
    /\ late' = late + 1
    /\ UNCHANGED <<phase, photoListener, listeners, stKey, stEmpty, seenKey,
                   seenLoading, emitted, pushes>>
    /\ UNCHANGED <<permVars, sendVars, pinVars, onlineVars>>

NextUserpic ==
    \/ Subscribe
    \/ PhotoChanged
    \/ TaskFinished
    \/ Destroy
    \/ PhotoChangedUnheard
    \/ TaskFinishedUnheard

SpecUserpic == InitUserpic /\ [][NextUserpic]_vars

---------------------------------------------------------------------------
(* Properties of the CanSendAnyOfValue streams (SpecSend).                 *)

Has(b) == b \in flags
AmOut == Has("Deactivated") \/ Has("Forbidden") \/ Has("Left")

\* C1 as stated: for a basic group whose Creator flag is set every
\* subscription holds true, whatever the other flags, the admin rights and
\* the default restrictions are.
C1_CreatorChatAlwaysSends ==
    (kind = "chat" /\ Has("Creator"))
        => \A q \in Queries : sendValue[q] = TRUE

\* C1 amended: for a basic group whose Creator flag is set and whose
\* Deactivated, Forbidden and Left flags are clear every subscription holds
\* true, whatever the admin rights and the default restrictions are.
C1_CreatorInChatAlwaysSends ==
    (kind = "chat" /\ Has("Creator") /\ ~AmOut)
        => \A q \in Queries : sendValue[q] = TRUE

C1_Witness ==
    /\ kind = "chat" /\ flags = {"Creator"}
    /\ adminRights = {} /\ defaultRestrictions = GroupRestrictions
    /\ sendValue[<<{"SendOther"}, FALSE>>] = TRUE

\* C2: for an open topic whose caller lacks the ManageTopics right the
\* topic's stream holds what the owning channel's stream holds, for every
\* requested rights mask with forbidInForums = false.
C2_OpenTopicFollowsChannel ==
    (kind = "channel" /\ Has("Forum") /\ ~topic.closed
        /\ ~("ManageTopics" \in adminRights))
        => \A r \in RightsMasks :
                threadValue[<<r, FALSE>>] = sendValue[<<r, FALSE>>]

\* C3: a channel with Broadcast set, without the PostMessages right and
\* without Creator holds false in every subscription.
C3_BroadcastReaderNeverSends ==
    (kind = "channel" /\ Has("Broadcast") /\ ~Has("Creator")
        /\ ~("PostMessages" \in adminRights))
        => \A q \in Queries : sendValue[q] = FALSE

C3_Witness ==
    /\ kind = "channel" /\ flags = {"Broadcast", "HasLink"}
    /\ adminRights = {"ManageTopics"}
    /\ restrictions = {} /\ defaultRestrictions = {}
    /\ sendValue[<<SendRights, FALSE>>] = FALSE

\* C4: a channel's stream holds: not ((Left or Forbidden) and not (HasLink
\* and not JoinToWrite)), and not (forbidInForums and Forum), and
\* (PostMessages right or Creator or (not Broadcast and some requested bit
\* is outside the caller's and the default restrictions)).
C4_ChannelRule ==
    kind = "channel" =>
        \A q \in Queries :
            sendValue[q] =
                (/\ ~((Has("Left") \/ Has("Forbidden"))
                        /\ ~(Has("HasLink") /\ ~Has("JoinToWrite")))
                 /\ ~(q[2] /\ Has("Forum"))
                 /\ \/ "PostMessages" \in adminRights
                    \/ Has("Creator")
                    \/ /\ ~Has("Broadcast")
                       /\ \E b \in q[1] :
                            b \notin (restrictions \cup defaultRestrictions))

C4_Witness ==
    /\ kind = "channel" /\ flags = {"Left", "Creator", "JoinToWrite", "HasLink"}
    /\ "PostMessages" \in adminRights
    /\ sendValue[<<{"SendOther"}, FALSE>>] = FALSE

\* C5: a person's stream holds false for the replies account; otherwise
\* not Deleted when a bit other than voice and video is requested, and
\* not (Deleted or VoiceMessagesForbidden) when none is.
C5_PersonRule ==
    kind = "user" =>
        \A q \in Queries :
            sendValue[q] =
                IF repliesChat
                THEN FALSE
                ELSE IF \E b \in q[1] :
                        b \notin {"SendVoiceMessages", "SendVideoMessages"}
                THEN ~Has("Deleted")
                ELSE ~(Has("Deleted") \/ Has("VoiceMessagesForbidden"))

C5_Witness ==
    /\ kind = "user" /\ ~repliesChat /\ flags = {"VoiceMessagesForbidden"}
    /\ sendValue[<<{"SendOther", "SendVoiceMessages"}, FALSE>>] = TRUE
    /\ sendValue[<<{"SendVoiceMessages", "SendVideoMessages"}, FALSE>>] = FALSE

---------------------------------------------------------------------------
(* Properties of CanPinMessagesValue and CanManageGroupCallValue (SpecPin) *)

PublicMegagroup ==
    /\ kind = "channel" /\ Has("Megagroup")
    /\ (Has("Username") \/ Has("Location"))

\* C6 as stated: in a megagroup with a username or a location a caller
\* without the PinMessages admin right gets false, creator or not.
C6_PublicMegagroupNeedsPinRight ==
    (PublicMegagroup /\ ~("PinMessages" \in adminRights))
        => pinValue = FALSE

\* C6 amended: in a megagroup with a username or a location a caller who
\* was not the creator when the stream was made and has no PinMessages
\* admin right gets false.
C6_PublicMegagroupNonCreatorNeedsPinRight ==
    (PublicMegagroup /\ ~creatorAtStart /\ ~("PinMessages" \in adminRights))
        => pinValue = FALSE

C6_Witness ==
    /\ PublicMegagroup /\ ~creatorAtStart
    /\ adminRights = {"EditMessages"}
    /\ restrictions = {} /\ defaultRestrictions = {}
    /\ pinValue = FALSE

\* C7: the stream of a basic group or channel holds true when the caller
\* was the creator at the call, the caller's ManageCall right when not,
\* and the stream of a person holds false.
C7_ManageCallRule ==
    /\ (kind \in {"chat", "channel"} /\ creatorAtStart) => callValue = TRUE
    /\ (kind \in {"chat", "channel"} /\ ~creatorAtStart)
            => callValue = ("ManageCall" \in adminRights)
    /\ kind = "user" => callValue = FALSE

C7_Witness ==
    /\ kind = "chat" /\ creatorAtStart /\ Has("Creator")
    /\ adminRights = {} /\ callValue = TRUE

---------------------------------------------------------------------------
(* Properties of the presence values (SpecOnline).                         *)

\* C8: for a positive timestamp after now the text is active, the phrase
\* changes in exactly online - now seconds and the timeout is that in
\* milliseconds, clamped to [1000, 86400000].
C8_FutureTimestamp ==
    (online > 0 /\ online > now) =>
        /\ active = TRUE
        /\ seconds = online - now
        /\ timeout = (IF online - now >= kSecondsInDay
                      THEN kMaxOnlineChangeTimeout
                      ELSE (online - now) * kMsInSecond)

C8_Witness ==
    /\ online = 1000 /\ now = 500
    /\ active /\ seconds = 500 /\ timeout = 500000

\* C9: the seconds are never negative, the assertion holds and the timeout
\* lies in [1000, 86400000].
C9_TimeoutInRange ==
    /\ seconds >= 0
    /\ assertOk
    /\ timeout >= kMinOnlineChangeTimeout
    /\ timeout <= kMaxOnlineChangeTimeout

C9_Witness ==
    /\ online > 0 /\ now >= online
    /\ now - online >= kHoursShown * kSecondsInHour
    /\ seconds >= 1 /\ seconds < kSecondsInDay
    /\ timeout = seconds * kMsInSecond

\* C10: for a non-positive timestamp with -online <= now the seconds are
\* the largest TimeId and the timeout is 24 hours; with -online > now the
\* seconds are -online - now.
C10_NonPositiveTimestamp ==
    /\ (online <= 0 /\ -online <= now)
            => (seconds = kTimeIdMax /\ timeout = kMaxOnlineChangeTimeout)
    /\ (online <= 0 /\ -online > now) => seconds = -online - now

C10_Witness ==
    /\ online = -500 /\ now = 1000
    /\ seconds = kTimeIdMax /\ timeout = kMaxOnlineChangeTimeout

\* C11: for the buckets 0, -1, -2, -3 and -4 the text is the bucket's
\* phrase whatever now is, also when now is below -online, and the text is
\* not active.
C11_BucketPhrases ==
    /\ online \in {0, -1} => text = <<"lng_status_offline">>
    /\ online = -2 => text = <<"lng_status_recently">>
    /\ online = -3 => text = <<"lng_status_last_week">>
    /\ online = -4 => text = <<"lng_status_last_month">>
    /\ online \in {0, -1, -2, -3, -4} => active = FALSE

C11_Witness ==
    /\ online = -4 /\ now = 2
    /\ text = <<"lng_status_last_month">> /\ active = FALSE

\* C14: for a timestamp in the past 12 hours the seconds are the exact
\* distance to the next phrase: the text stays what it is for every later
\* now before now + seconds and is another at now + seconds; under 60
\* minutes the seconds are (minutes + 1) * 60 - elapsed, within 1..60, and
\* from there to 12 hours (hours + 1) * 3600 - elapsed.  (A now + seconds
\* beyond the largest TimeId is no time to ask about.)
C14_SecondsReachNextPhrase ==
    (online > 0 /\ now >= online
        /\ now - online < kHoursShown * kSecondsInHour
        /\ now <= kTimeIdMax - seconds)
    => LET elapsed == now - online
       IN  /\ \A k \in 0..(seconds - 1) :
                OnlineText(online, now + k, utcOffset) = text
           /\ OnlineText(online, now + seconds, utcOffset) # text
           /\ elapsed < kMinutesShown * kSecondsInMinute =>
                /\ seconds = ((elapsed \div kSecondsInMinute) + 1)
                                * kSecondsInMinute - elapsed
                /\ seconds >= 1 /\ seconds <= kSecondsInMinute
           /\ elapsed >= kMinutesShown * kSecondsInMinute =>
                seconds = ((elapsed \div kSecondsInHour) + 1)
                                * kSecondsInHour - elapsed

C14_Witness ==
    /\ online = 60 /\ now = 3600
    /\ text = <<"lng_status_lastseen_minutes", 59>>
    /\ seconds = 60

\* C13: whatever changes were made to the peer since the streams were
\* made, the latest value of CanPinMessagesValue and of
\* CanManageGroupCallValue is the rule on the peer's current flags (its
\* current creator status too), admin rights and restrictions.
C13_StreamsFollowCurrentState ==
    /\ pinValue = CanPinMessagesValue(kind, Has("Creator"), flags,
                                      adminRights, restrictions,
                                      defaultRestrictions)
    /\ callValue = CanManageGroupCallValue(kind, Has("Creator"), adminRights)

---------------------------------------------------------------------------
(* Properties of the PeerUserpicImageValue subscription (SpecUserpic).     *)

Emits == Len(emitted') = Len(emitted) + 1
Recomputes == pushes' = pushes + 1

\* C12: the first recomputation emits one image whatever key and loading
\* it reads; a later one emits exactly when it reads no pending load and a
\* key other than the key of the last emission; no two consecutive
\* emissions carry the same key.
C12_EmitsOnceThenOnNewKey ==
    /\ [][Recomputes =>
            /\ Len(emitted') \in {Len(emitted), Len(emitted) + 1}
            /\ pushes = 0 => (Emits /\ emitted' = <<seenKey'>>)
            /\ pushes > 0 =>
                (Emits <=> (~seenLoading'
                            /\ seenKey' # emitted[Len(emitted)]))
            /\ Emits => emitted' = Append(emitted, seenKey')]_vars
    /\ [](\A i \in 1..(Len(emitted) - 1) : emitted[i] # emitted[i + 1])

C12_Witness ==
    /\ phase = "subscribed" /\ pushes = 3
    /\ emitted = <<"none">>
    /\ seenKey = "none" /\ ~seenLoading

\* C15: after a recomputation one load-completion listener is registered
\* if it saw a pending load and none if not; once the subscription is torn
\* down no listener is left and no notification emits.
C15_OneListenerWhileLoading ==
    /\ [](phase = "subscribed" =>
            (listeners = (IF seenLoading THEN 1 ELSE 0)))
    /\ [](listeners <= 1)
    /\ [](phase = "destroyed" => (listeners = 0 /\ ~photoListener))
    /\ [][phase = "destroyed" =>
            (emitted' = emitted /\ pushes' = pushes)]_vars

C15_Witness ==
    /\ phase = "destroyed" /\ late = MaxLate
    /\ seenLoading /\ listeners = 0 /\ pushes >= 2

=============================================================================
